---- MODULE Spec2Model ----
(***************************************************************************)
(* A model of src/transport/file_volatile_slice.rs of fuse-backend-rs:     *)
(* FileVolatileSlice (an address + length view over caller memory), its    *)
(* Bytes<usize> implementation (which delegates to vm_memory's             *)
(* VolatileSlice), and FileVolatileBuf (the tokio-uring buffer adapter).   *)
(*                                                                         *)
(* usize is scaled down to AddrBits bits so that checked_add can overflow  *)
(* inside the model; everything else is computed as the code computes it.  *)
(***************************************************************************)
EXTENDS Integers, Sequences, FiniteSets, TLC

VARIABLES mem, root, cur, fbuf, last

vars == <<mem, root, cur, fbuf, last>>

(***************************************************************************)
(* Bounds of the model.                                                    *)
(***************************************************************************)
\* width of usize in the model (64 on the real targets)
AddrBits == 4
\* length of the region the root view of the memory specifications covers
BufLen == 3

\* usize::MAX
UsizeMax == 2^AddrBits - 1
\* number of values of a u8
ByteMod == 256

\* The backing array `buffer`: MemLen bytes at addresses BufBase..BufBase+MemLen-1.
\* The root view of the memory specifications covers its first BufLen bytes; the
\* byte that follows is adjacent caller memory no view may touch.
MemLen == BufLen + 1
BufBase == 2^(AddrBits - 1)
MemAddrs == BufBase .. (BufBase + MemLen - 1)

(***************************************************************************)
(* Result<T, E>: kind "Ok" or the name of the error variant, with the      *)
(* variant's two payload fields (0 when the variant has fewer).            *)
(***************************************************************************)
Err(k, a, b) == [kind |-> k, a |-> a, b |-> b]
OkKind == "Ok"

\* usize::checked_add / usize::checked_sub: -1 stands for None
checked_add(a, b) == IF a + b > UsizeMax THEN -1 ELSE a + b
checked_sub(a, b) == IF a - b < 0 THEN -1 ELSE a - b

(***************************************************************************)
(* FileVolatileSlice                                                       *)
(***************************************************************************)
FileVolatileSlice_new(addr, size) == [addr |-> addr, size |-> size]

as_ptr(self) == self.addr

len(self) == self.size

is_empty(self) == self.size = 0

\* A plausible slip: the size of the parent is kept.
offset_KeepSize(self, count) ==
    LET new_addr == checked_add(self.addr, count) IN
    IF new_addr = -1
    THEN [res |-> Err("Overflow", self.addr, count), view |-> self]
    ELSE IF checked_sub(self.size, count) = -1
         THEN [res |-> Err("OutOfBounds", new_addr, 0), view |-> self]
         ELSE [res |-> Err(OkKind, 0, 0),
               view |-> FileVolatileSlice_new(new_addr, self.size)]

\* A plausible slip: saturating_sub instead of checked_sub.
offset_Saturating(self, count) ==
    LET new_addr == checked_add(self.addr, count) IN
    IF new_addr = -1
    THEN [res |-> Err("Overflow", self.addr, count), view |-> self]
    ELSE [res |-> Err(OkKind, 0, 0),
          view |-> FileVolatileSlice_new(new_addr,
                       IF count > self.size THEN 0 ELSE self.size - count)]

\* A plausible slip: off by one in the new address.
offset_OffByOne(self, count) ==
    LET new_addr == checked_add(self.addr, count + 1) IN
    IF new_addr = -1
    THEN [res |-> Err("Overflow", self.addr, count), view |-> self]
    ELSE IF checked_sub(self.size, count) = -1
         THEN [res |-> Err("OutOfBounds", new_addr, 0), view |-> self]
         ELSE [res |-> Err(OkKind, 0, 0),
               view |-> FileVolatileSlice_new(new_addr, self.size - count)]

\* offset(&self, count) -> Result<Self, Error>.  `view` is the returned view
\* when res.kind = "Ok" (and self, unused, otherwise).
offset(self, count) ==
    LET new_addr == checked_add(self.addr, count) IN
    IF new_addr = -1
    THEN [res |-> Err("Overflow", self.addr, count), view |-> self]
    ELSE LET new_size == checked_sub(self.size, count) IN
         IF new_size = -1
         THEN [res |-> Err("OutOfBounds", new_addr, 0), view |-> self]
         ELSE [res |-> Err(OkKind, 0, 0),
               view |-> FileVolatileSlice_new(new_addr, new_size)]

(***************************************************************************)
(* vm_memory::VolatileSlice<()>, the crate the Bytes implementation        *)
(* delegates to.  Memory is passed explicitly: m maps each address of the  *)
(* backing array to its byte.                                              *)
(***************************************************************************)
VolatileSlice_new(addr, size) == [addr |-> addr, size |-> size]

\* A plausible slip: the view handed to vm_memory is one byte too long.
as_volatile_slice_TooLong(self) == VolatileSlice_new(as_ptr(self), len(self) + 1)

as_volatile_slice(self) == VolatileSlice_new(as_ptr(self), len(self))

Min(a, b) == IF a < b THEN a ELSE b

\* size_of::<T>() and align_of::<T::A>() of the AtomicAccess types modelled
size_of(T) == CASE T = "u8" -> 1 [] T = "u16" -> 2 [] T = "u32" -> 4
align_of(T) == size_of(T)

\* T::to_ne_bytes / from_ne_bytes on a little-endian target
RECURSIVE ToBytes(_, _)
ToBytes(v, n) == IF n = 0 THEN <<>> ELSE <<v % ByteMod>> \o ToBytes(v \div ByteMod, n - 1)
RECURSIVE FromBytes(_)
FromBytes(bs) == IF bs = <<>> THEN 0 ELSE bs[1] + ByteMod * FromBytes(Tail(bs))

\* copy bs to addresses a, a+1, ... of m
MemWrite(m, a, bs) ==
    [x \in DOMAIN m |-> IF x >= a /\ x < a + Len(bs) THEN bs[x - a + 1] ELSE m[x]]
\* the n bytes of m at addresses a, a+1, ...
MemRead(m, a, n) == [i \in 1..n |-> m[a + i - 1]]

\* volatile_memory::compute_offset
compute_offset(base, off) ==
    IF checked_add(base, off) = -1 THEN Err("Overflow", base, off)
    ELSE [kind |-> OkKind, a |-> base + off, b |-> 0]

\* VolatileSlice::subslice's checks (compute_end_offset): Ok, or the error
subslice_check(vs, off, count) ==
    LET e == compute_offset(off, count) IN
    IF e.kind # OkKind THEN e
    ELSE IF e.a > vs.size THEN Err("OutOfBounds", e.a, 0)
    ELSE Err(OkKind, 0, 0)

\* VolatileSlice::check_alignment of the subslice at off
check_alignment(vs, off, alignment) ==
    IF (vs.addr + off) % alignment # 0
    THEN Err("Misaligned", vs.addr + off, alignment)
    ELSE Err(OkKind, 0, 0)

\* VolatileSlice::get_atomic_ref::<T::A>(off)
get_atomic_ref(vs, T, off) ==
    LET e == subslice_check(vs, off, size_of(T)) IN
    IF e.kind # OkKind THEN e ELSE check_alignment(vs, off, align_of(T))

Orderings == {"Relaxed", "Release", "Acquire", "AcqRel", "SeqCst"}
\* core::sync::atomic: a store panics for Acquire and AcqRel, a load for
\* Release and AcqRel
StoreOrderings == {"Relaxed", "Release", "SeqCst"}
LoadOrderings == {"Relaxed", "Acquire", "SeqCst"}

\* <VolatileSlice as Bytes>::store
VolatileSlice_store(m, vs, T, val, off, order) ==
    LET e == get_atomic_ref(vs, T, off) IN
    IF e.kind # OkKind THEN [res |-> e, mem |-> m]
    ELSE IF order \notin StoreOrderings THEN [res |-> Err("panic", 0, 0), mem |-> m]
    ELSE [res |-> e, mem |-> MemWrite(m, vs.addr + off, ToBytes(val, size_of(T)))]

\* <VolatileSlice as Bytes>::load
VolatileSlice_load(m, vs, T, off, order) ==
    LET e == get_atomic_ref(vs, T, off) IN
    IF e.kind # OkKind THEN [res |-> e, val |-> 0]
    ELSE IF order \notin LoadOrderings THEN [res |-> Err("panic", 0, 0), val |-> 0]
    ELSE [res |-> e, val |-> FromBytes(MemRead(m, vs.addr + off, size_of(T)))]

\* <VolatileSlice as Bytes>::write: copies min(buf.len(), size - addr) bytes
VolatileSlice_write(m, vs, buf, addr) ==
    IF Len(buf) = 0 THEN [res |-> Err(OkKind, 0, 0), n |-> 0, mem |-> m]
    ELSE IF addr >= vs.size THEN [res |-> Err("OutOfBounds", addr, 0), n |-> 0, mem |-> m]
    ELSE LET total == Min(Len(buf), vs.size - addr) IN
         [res |-> Err(OkKind, 0, 0), n |-> total,
          mem |-> MemWrite(m, vs.addr + addr, SubSeq(buf, 1, total))]

\* <VolatileSlice as Bytes>::read: fills the first min(buf.len(), size - addr)
\* bytes of buf
VolatileSlice_read(m, vs, buf, addr) ==
    IF Len(buf) = 0 THEN [res |-> Err(OkKind, 0, 0), n |-> 0, buf |-> buf]
    ELSE IF addr >= vs.size THEN [res |-> Err("OutOfBounds", addr, 0), n |-> 0, buf |-> buf]
    ELSE LET total == Min(Len(buf), vs.size - addr) IN
         [res |-> Err(OkKind, 0, 0), n |-> total,
          buf |-> MemRead(m, vs.addr + addr, total) \o SubSeq(buf, total + 1, Len(buf))]

\* <VolatileSlice as Bytes>::write_slice: write, then PartialBuffer unless all
\* of buf was written (the bytes that fit stay written)
VolatileSlice_write_slice(m, vs, buf, addr) ==
    LET w == VolatileSlice_write(m, vs, buf, addr) IN
    IF w.res.kind # OkKind THEN [res |-> w.res, mem |-> w.mem]
    ELSE IF w.n # Len(buf) THEN [res |-> Err("PartialBuffer", Len(buf), w.n), mem |-> w.mem]
    ELSE [res |-> w.res, mem |-> w.mem]

\* <VolatileSlice as Bytes>::read_from: after the bounds check, one read of the
\* source into the region.  The source is a byte slice: a read hands over
\* min(count, what is left) bytes.
VolatileSlice_read_from(m, vs, addr, src, count) ==
    LET e == subslice_check(vs, addr, count) IN
    IF e.kind # OkKind THEN [res |-> e, n |-> 0, mem |-> m]
    ELSE LET total == Min(count, Len(src)) IN
         [res |-> e, n |-> total,
          mem |-> MemWrite(m, vs.addr + addr, SubSeq(src, 1, total))]

\* <VolatileSlice as Bytes>::read_exact_from: the outcomes of the call.  A
\* source shorter than count fails with IOError; whether the bytes it did have
\* reached the region first depends on the reader's read_exact, so both
\* outcomes are kept.
VolatileSlice_read_exact_from(m, vs, addr, src, count) ==
    LET e == subslice_check(vs, addr, count) IN
    IF e.kind # OkKind THEN {[res |-> e, mem |-> m]}
    ELSE IF Len(src) >= count
         THEN {[res |-> e, mem |-> MemWrite(m, vs.addr + addr, SubSeq(src, 1, count))]}
         ELSE {[res |-> Err("IOError", count, Len(src)), mem |-> m],
               [res |-> Err("IOError", count, Len(src)),
                mem |-> MemWrite(m, vs.addr + addr, src)]}

\* <VolatileSlice as Bytes>::write_to: after the bounds check, one write of the
\* region's bytes to the sink.  The sink is a mutable byte slice: a write takes
\* min(count, its room) bytes.
VolatileSlice_write_to(m, vs, addr, dst, count) ==
    LET e == subslice_check(vs, addr, count) IN
    IF e.kind # OkKind THEN [res |-> e, n |-> 0, buf |-> dst]
    ELSE LET total == Min(count, Len(dst)) IN
         [res |-> e, n |-> total,
          buf |-> MemRead(m, vs.addr + addr, total) \o SubSeq(dst, total + 1, Len(dst))]

\* <VolatileSlice as Bytes>::write_all_to: IOError (WriteZero) when the sink
\* has less room than count, after it took what fitted
VolatileSlice_write_all_to(m, vs, addr, dst, count) ==
    LET w == VolatileSlice_write_to(m, vs, addr, dst, count) IN
    IF w.res.kind # OkKind THEN [res |-> w.res, buf |-> w.buf]
    ELSE IF w.n # count THEN [res |-> Err("IOError", count, w.n), buf |-> w.buf]
    ELSE [res |-> w.res, buf |-> w.buf]

(***************************************************************************)
(* impl Bytes<usize> for FileVolatileSlice.  Each returns the result, the  *)
(* memory after the call and, where there is one, the caller's buffer or   *)
(* the loaded value after the call.                                        *)
(***************************************************************************)
write(m, self, buf, addr) == VolatileSlice_write(m, as_volatile_slice(self), buf, addr)

read(m, self, buf, addr) ==
    LET r == VolatileSlice_read(m, as_volatile_slice(self), buf, addr) IN
    [res |-> r.res, n |-> r.n, buf |-> r.buf, mem |-> m]

write_slice(m, self, buf, addr) ==
    VolatileSlice_write_slice(m, as_volatile_slice(self), buf, addr)

\* read_slice calls VolatileSlice::write_slice: buf is written INTO the view and
\* comes back as it went in.
read_slice(m, self, buf, addr) ==
    LET r == VolatileSlice_write_slice(m, as_volatile_slice(self), buf, addr) IN
    [res |-> r.res, mem |-> r.mem, buf |-> buf]

read_from(m, self, addr, src, count) ==
    VolatileSlice_read_from(m, as_volatile_slice(self), addr, src, count)

read_exact_from(m, self, addr, src, count) ==
    VolatileSlice_read_exact_from(m, as_volatile_slice(self), addr, src, count)

write_to(m, self, addr, dst, count) ==
    LET r == VolatileSlice_write_to(m, as_volatile_slice(self), addr, dst, count) IN
    [res |-> r.res, n |-> r.n, buf |-> r.buf, mem |-> m]

write_all_to(m, self, addr, dst, count) ==
    LET r == VolatileSlice_write_all_to(m, as_volatile_slice(self), addr, dst, count) IN
    [res |-> r.res, buf |-> r.buf, mem |-> m]

\* A plausible slip: the offset is dropped on the way to vm_memory.
store_AtZero(m, self, T, val, addr, order) ==
    VolatileSlice_store(m, as_volatile_slice(self), T, val, 0, order)

store(m, self, T, val, addr, order) ==
    VolatileSlice_store(m, as_volatile_slice(self), T, val, addr, order)

\* A plausible slip: the offset is dropped on the way to vm_memory.
load_AtZero(m, self, T, addr, order) ==
    LET r == VolatileSlice_load(m, as_volatile_slice(self), T, 0, order) IN
    [res |-> r.res, val |-> r.val, mem |-> m]

load(m, self, T, addr, order) ==
    LET r == VolatileSlice_load(m, as_volatile_slice(self), T, addr, order) IN
    [res |-> r.res, val |-> r.val, mem |-> m]

(***************************************************************************)
(* FileVolatileBuf (feature async-io)                                      *)
(***************************************************************************)
\* FileVolatileBuf::new(buf: &mut [u8]); the slice is its pointer and length
FileVolatileBuf_new(buf_ptr, buf_len) == [addr |-> buf_ptr, size |-> 0, cap |-> buf_len]

from_raw(addr, size, cap) == [addr |-> addr, size |-> size, cap |-> cap]

stable_ptr(self) == self.addr

bytes_init(self) == self.size

bytes_total(self) == self.cap

stable_mut_ptr(self) == self.addr

\* A plausible slip: the capacity is overwritten instead of the length.
set_init_SetsCap(self, pos) == [self EXCEPT !.cap = pos]

\* A plausible slip: off by one in the length.
set_init_OffByOne(self, pos) == [self EXCEPT !.size = pos + 1]

set_init(self, pos) == [self EXCEPT !.size = pos]

borrow_mut(self) == [addr |-> self.addr, size |-> 0, cap |-> self.size]

(***************************************************************************)
(* Inputs                                                                  *)
(***************************************************************************)
\* every usize
Usizes == 0 .. UsizeMax
\* addresses handed to the constructors: low in the address space, and the
\* last BufLen + 1 addresses, from which a region may reach the top of usize
\* or be declared past it (the constructors check nothing)
Bases == {1} \cup ((UsizeMax - BufLen) .. UsizeMax)
Sizes == 0 .. BufLen
\* offsets the memory operations are tried at: inside the root view, at its end
\* (past the end of every shorter view), and at the top of usize
Offsets == (0 .. BufLen) \cup {UsizeMax}
\* the AtomicAccess types modelled, with one value of each
Types == {"u8", "u16", "u32"}
ValueOf(T) == CASE T = "u8" -> 1 [] T = "u16" -> 256 [] T = "u32" -> 16777217
\* caller buffers of write_slice / read_slice / write / read
Bufs == {<<>>, <<1>>, <<0>>, <<0, 1>>, <<1, 1, 0>>, <<1, 0, 1, 0, 1, 1, 0>>}
\* the sources and sinks of the streaming calls, and their counts
StreamBufs == {<<1>>, <<0, 1>>, <<1, 1, 0, 1>>}
Counts == 0 .. BufLen
\* what the other writers put into memory between atomic accesses
AtomicBufs == {<<1>>, <<1, 0>>}

ZeroMem == [x \in MemAddrs |-> 0]
WholeBuffer == FileVolatileSlice_new(BufBase, BufLen)

(***************************************************************************)
(* State.  mem is the caller's backing array, root the view made by new,   *)
(* cur the latest view made by offset, fbuf a FileVolatileBuf.  last is    *)
(* the latest call: its name, the view it was made on, its arguments and   *)
(* what it returned (fields a call does not use keep these defaults).      *)
(***************************************************************************)
Call(op, on, off) ==
    [op |-> op, on |-> on, off |-> off, ty |-> "u8", val |-> 0, ord |-> "Relaxed",
     buf |-> <<>>, out |-> <<>>, count |-> 0, n |-> 0, res |-> Err(OkKind, 0, 0), view |-> on]

Init ==
    /\ mem = ZeroMem
    /\ root = WholeBuffer
    /\ cur = root
    /\ fbuf = FileVolatileBuf_new(BufBase, BufLen)
    /\ last = Call("new", root, 0)

\* let s = unsafe { FileVolatileSlice::new(addr, size) }: addr and size are
\* stored as given
New(addr, size) ==
    /\ root' = FileVolatileSlice_new(addr, size)
    /\ cur' = root'
    /\ last' = Call("new", root', 0)
    /\ UNCHANGED <<mem, fbuf>>

\* src.offset(count), src being root or cur; a returned view becomes cur
Offset(src, count) ==
    LET r == offset(src, count) IN
    /\ cur' = IF r.res.kind = OkKind THEN r.view ELSE cur
    /\ last' = [Call("offset", src, count) EXCEPT !.res = r.res, !.view = r.view]
    /\ UNCHANGED <<mem, root, fbuf>>

(***************************************************************************)
(* Geometry: new and offset over every count a usize can hold.             *)
(***************************************************************************)
NextSlice ==
    \/ \E addr \in Bases, size \in Sizes : New(addr, size)
    \/ \E src \in {root, cur}, count \in Usizes : Offset(src, count)

SpecSlice == Init /\ [][NextSlice]_vars

(***************************************************************************)
(* Byte-region access through cur, a sub-view of the backing array.        *)
(***************************************************************************)
Write(buf, off) ==
    LET r == write(mem, cur, buf, off) IN
    /\ mem' = r.mem
    /\ last' = [Call("write", cur, off) EXCEPT !.buf = buf, !.out = buf,
                                              !.n = r.n, !.res = r.res]
    /\ UNCHANGED <<root, cur, fbuf>>

Read(buf, off) ==
    LET r == read(mem, cur, buf, off) IN
    /\ mem' = r.mem
    /\ last' = [Call("read", cur, off) EXCEPT !.buf = buf, !.out = r.buf,
                                             !.n = r.n, !.res = r.res]
    /\ UNCHANGED <<root, cur, fbuf>>

WriteSlice(buf, off) ==
    LET r == write_slice(mem, cur, buf, off) IN
    /\ mem' = r.mem
    /\ last' = [Call("write_slice", cur, off) EXCEPT !.buf = buf, !.out = buf,
                                                    !.res = r.res]
    /\ UNCHANGED <<root, cur, fbuf>>

ReadSlice(buf, off) ==
    LET r == read_slice(mem, cur, buf, off) IN
    /\ mem' = r.mem
    /\ last' = [Call("read_slice", cur, off) EXCEPT !.buf = buf, !.out = r.buf,
                                                   !.res = r.res]
    /\ UNCHANGED <<root, cur, fbuf>>

ReadFrom(src, off, count) ==
    LET r == read_from(mem, cur, off, src, count) IN
    /\ mem' = r.mem
    /\ last' = [Call("read_from", cur, off) EXCEPT !.buf = src, !.out = src,
                                                  !.count = count, !.n = r.n,
                                                  !.res = r.res]
    /\ UNCHANGED <<root, cur, fbuf>>

ReadExactFrom(src, off, count) ==
    \E r \in read_exact_from(mem, cur, off, src, count) :
        /\ mem' = r.mem
        /\ last' = [Call("read_exact_from", cur, off) EXCEPT !.buf = src, !.out = src,
                                                            !.count = count,
                                                            !.res = r.res]
        /\ UNCHANGED <<root, cur, fbuf>>

WriteTo(dst, off, count) ==
    LET r == write_to(mem, cur, off, dst, count) IN
    /\ mem' = r.mem
    /\ last' = [Call("write_to", cur, off) EXCEPT !.buf = dst, !.out = r.buf,
                                                 !.count = count, !.n = r.n,
                                                 !.res = r.res]
    /\ UNCHANGED <<root, cur, fbuf>>

WriteAllTo(dst, off, count) ==
    LET r == write_all_to(mem, cur, off, dst, count) IN
    /\ mem' = r.mem
    /\ last' = [Call("write_all_to", cur, off) EXCEPT !.buf = dst, !.out = r.buf,
                                                     !.count = count,
                                                     !.res = r.res]
    /\ UNCHANGED <<root, cur, fbuf>>

NextBytes ==
    \/ \E src \in {root, cur}, count \in Offsets : Offset(src, count)
    \/ \E buf \in Bufs, off \in Offsets : Write(buf, off)
    \/ \E buf \in Bufs, off \in Offsets : Read(buf, off)
    \/ \E buf \in Bufs, off \in Offsets : WriteSlice(buf, off)
    \/ \E buf \in Bufs, off \in Offsets : ReadSlice(buf, off)
    \/ \E src \in StreamBufs, off \in Offsets, count \in Counts : ReadFrom(src, off, count)
    \/ \E src \in StreamBufs, off \in Offsets, count \in Counts :
           ReadExactFrom(src, off, count)
    \/ \E dst \in StreamBufs, off \in Offsets, count \in Counts : WriteTo(dst, off, count)
    \/ \E dst \in StreamBufs, off \in Offsets, count \in Counts :
           WriteAllTo(dst, off, count)

SpecBytes == Init /\ [][NextBytes]_vars

(***************************************************************************)
(* Atomic access through cur, among the other calls that write memory.     *)
(***************************************************************************)
Store(T, off, order) ==
    LET r == store(mem, cur, T, ValueOf(T), off, order) IN
    /\ mem' = r.mem
    /\ last' = [Call("store", cur, off) EXCEPT !.ty = T, !.val = ValueOf(T),
                                              !.ord = order, !.res = r.res]
    /\ UNCHANGED <<root, cur, fbuf>>

Load(T, off, order) ==
    LET r == load(mem, cur, T, off, order) IN
    /\ mem' = r.mem
    /\ last' = [Call("load", cur, off) EXCEPT !.ty = T, !.val = r.val,
                                             !.ord = order, !.res = r.res]
    /\ UNCHANGED <<root, cur, fbuf>>

NextAtomic ==
    \/ \E src \in {root, cur}, count \in Offsets : Offset(src, count)
    \/ \E T \in Types, off \in Offsets, order \in Orderings : Store(T, off, order)
    \/ \E T \in Types, off \in Offsets, order \in Orderings : Load(T, off, order)
    \/ \E buf \in AtomicBufs, off \in Offsets : WriteSlice(buf, off)
    \/ \E buf \in AtomicBufs, off \in Offsets : ReadSlice(buf, off)
    \/ \E src \in AtomicBufs, off \in Offsets : ReadFrom(src, off, Len(src))
    \/ \E src \in AtomicBufs, off \in Offsets : ReadExactFrom(src, off, Len(src))

SpecAtomic == Init /\ [][NextAtomic]_vars

(***************************************************************************)
(* FileVolatileBuf: the three constructors and set_init.  Here last holds  *)
(* the constructor's arguments or, for set_init, the buffer it was called  *)
(* on and pos.                                                             *)
(***************************************************************************)
BufCall(op, addr, size, cap, pos) ==
    [op |-> op, addr |-> addr, size |-> size, cap |-> cap, pos |-> pos]

InitBuf ==
    /\ mem = ZeroMem
    /\ root = WholeBuffer
    /\ cur = root
    /\ fbuf = FileVolatileBuf_new(BufBase, BufLen)
    /\ last = BufCall("new", BufBase, 0, BufLen, 0)

\* FileVolatileBuf::new(&mut buf[..]): buf is a Rust slice, which never
\* extends past the top of the address space
BufNew(buf_ptr, buf_len) ==
    /\ buf_ptr + buf_len <= UsizeMax
    /\ fbuf' = FileVolatileBuf_new(buf_ptr, buf_len)
    /\ last' = BufCall("new", buf_ptr, 0, buf_len, 0)
    /\ UNCHANGED <<mem, root, cur>>

FromRaw(addr, size, cap) ==
    /\ fbuf' = from_raw(addr, size, cap)
    /\ last' = BufCall("from_raw", addr, size, cap, 0)
    /\ UNCHANGED <<mem, root, cur>>

BorrowMut(slice) ==
    /\ fbuf' = borrow_mut(slice)
    /\ last' = BufCall("borrow_mut", slice.addr, 0, slice.size, 0)
    /\ UNCHANGED <<mem, root, cur>>

SetInit(pos) ==
    /\ fbuf' = set_init(fbuf, pos)
    /\ last' = BufCall("set_init", fbuf.addr, fbuf.size, fbuf.cap, pos)
    /\ UNCHANGED <<mem, root, cur>>

NextBuf ==
    \/ \E a \in Bases, n \in Sizes : BufNew(a, n)
    \/ \E a \in Bases, n \in 0 .. (BufLen + 1), c \in Sizes : FromRaw(a, n, c)
    \/ \E a \in Bases, n \in Sizes : BorrowMut(FileVolatileSlice_new(a, n))
    \/ \E pos \in 0 .. (BufLen + 1) : SetInit(pos)

SpecBuf == InitBuf /\ [][NextBuf]_vars

(***************************************************************************)
(* Properties of offset (SpecSlice)                                        *)
(***************************************************************************)
\* C1 as stated: offset(count) with count <= length succeeds and returns the
\* view (address + count, length - count); the view it was called on and root
\* keep their address and length; offset(length) returns an empty view.
C1_OffsetWithinLength ==
    [][ (last'.op = "offset" /\ last'.off <= last'.on.size) =>
            /\ last'.res.kind = OkKind
            /\ last'.view = [addr |-> last'.on.addr + last'.off,
                             size |-> last'.on.size - last'.off]
            /\ cur' = last'.view
            /\ root' = root
            /\ (last'.off = last'.on.size => is_empty(last'.view) /\ len(last'.view) = 0)
      ]_vars

\* C1 amended: the same, when address + count <= usize::MAX; when address +
\* count exceeds usize::MAX, offset(count) returns Overflow{base: address,
\* offset: count} although count <= length, and no view.
C1_OffsetWithinLengthNoOverflow ==
    [][ (last'.op = "offset" /\ last'.off <= last'.on.size) =>
            IF last'.on.addr + last'.off <= UsizeMax
            THEN /\ last'.res.kind = OkKind
                 /\ last'.view = [addr |-> last'.on.addr + last'.off,
                                  size |-> last'.on.size - last'.off]
                 /\ cur' = last'.view
                 /\ root' = root
                 /\ (last'.off = last'.on.size =>
                        is_empty(last'.view) /\ len(last'.view) = 0)
            ELSE /\ last'.res = Err("Overflow", last'.on.addr, last'.off)
                 /\ cur' = cur
                 /\ root' = root
      ]_vars

C1_Witness ==
    /\ last.op = "offset"
    /\ last.on.size > 0
    /\ last.off = last.on.size
    /\ last.res.kind = OkKind
    /\ cur = [addr |-> last.on.addr + last.off, size |-> 0]

\* C2 as stated: offset(count) with count > length returns the error OutOfBounds.
C2_PastEndIsOutOfBounds ==
    (last.op = "offset" /\ last.off > last.on.size) => last.res.kind = "OutOfBounds"

\* C2 amended: offset(count) with count > length returns an error, never a
\* view: Overflow{base: address, offset: count} when address + count exceeds
\* usize::MAX, and OutOfBounds{addr: address + count} otherwise.
C2_PastEndIsError ==
    (last.op = "offset" /\ last.off > last.on.size) =>
        /\ last.res.kind # OkKind
        /\ last.res = IF last.on.addr + last.off > UsizeMax
                      THEN Err("Overflow", last.on.addr, last.off)
                      ELSE Err("OutOfBounds", last.on.addr + last.off, 0)

C2_Witness ==
    /\ last.op = "offset"
    /\ last.off > last.on.size
    /\ last.on.size > 0
    /\ last.res = Err("OutOfBounds", last.on.addr + last.off, 0)

\* C9 as stated: offset(o1) followed by offset(o2 - o1) on the result yields
\* the same (address, length) as offset(o2) on the original view, for
\* o1 <= o2 <= length.
C9_OffsetAdditive ==
    [][ ( /\ last.op = "offset" /\ last.res.kind = OkKind
          /\ last'.op = "offset" /\ last'.on = last.view
          /\ last.off + last'.off <= last.on.size ) =>
            /\ last'.res.kind = OkKind
            /\ offset(last.on, last.off + last'.off).res.kind = OkKind
            /\ last'.view = offset(last.on, last.off + last'.off).view
      ]_vars

\* C9 amended: the same, when address + o2 <= usize::MAX; when address + o2
\* exceeds usize::MAX neither way yields a view: offset(o2) returns Overflow,
\* and so does the second of the two steps (or already the first, checked by
\* the second conjunct: a step that overflows, overflows for every larger count).
C9_OffsetAdditiveNoOverflow ==
    [][ /\ ( /\ last.op = "offset" /\ last.res.kind = OkKind
             /\ last'.op = "offset" /\ last'.on = last.view
             /\ last.off + last'.off <= last.on.size ) =>
               IF last.on.addr + last.off + last'.off <= UsizeMax
               THEN /\ last'.res.kind = OkKind
                    /\ offset(last.on, last.off + last'.off).res.kind = OkKind
                    /\ last'.view = offset(last.on, last.off + last'.off).view
               ELSE /\ last'.res.kind = "Overflow"
                    /\ offset(last.on, last.off + last'.off).res.kind = "Overflow"
        /\ (last'.op = "offset" /\ last'.res.kind = "Overflow") =>
               \A o2 \in last'.off .. UsizeMax :
                   offset(last'.on, o2).res.kind = "Overflow"
      ]_vars

C9_Witness ==
    /\ last.op = "offset"
    /\ last.res.kind = OkKind
    /\ last.off > 0
    /\ last.on.addr > root.addr
    /\ last.on.size < root.size
    /\ last.view.size > 0
    /\ cur = offset(root, cur.addr - root.addr).view

(***************************************************************************)
(* Properties of write_slice / read_slice (SpecBytes)                      *)
(***************************************************************************)
\* C3: a successful write_slice(X, offset) followed by read_slice(buf, offset)
\* with len(buf) = len(X) succeeds and leaves buf equal to X.
C3_WriteThenReadRoundTrips ==
    [][ ( /\ last.op = "write_slice" /\ last.res.kind = OkKind
          /\ last'.op = "read_slice" /\ last'.on = last.on /\ last'.off = last.off
          /\ Len(last'.buf) = Len(last.buf) ) =>
            /\ last'.res.kind = OkKind
            /\ last'.out = last.buf
      ]_vars

\* C4: a successful read_slice(buf, offset) leaves in buf the view's bytes
\* [offset, offset + len(buf)) and leaves every byte of memory as it was.
C4_ReadSliceCopiesOut ==
    [][ (last'.op = "read_slice" /\ last'.res.kind = OkKind) =>
            /\ last'.out = MemRead(mem, last'.on.addr + last'.off, Len(last'.buf))
            /\ mem' = mem
      ]_vars

(***************************************************************************)
(* Properties of store / load (SpecAtomic)                                 *)
(***************************************************************************)
\* the store or load recorded in call c lies inside the view it was made on
InBounds(c) == c.off + size_of(c.ty) <= c.on.size
\* the address it accesses is a multiple of the type's alignment
Aligned(c) == (c.on.addr + c.off) % align_of(c.ty) = 0

\* C5 as stated: for every offset with offset + size_of(T) <= length, a store
\* followed by a load of the same type at the same offset returns the value.
C5_StoreThenLoad ==
    [][ ( /\ last.op = "store" /\ last'.op = "load"
          /\ last'.on = last.on /\ last'.ty = last.ty /\ last'.off = last.off
          /\ InBounds(last)
          /\ last.ord \in StoreOrderings /\ last'.ord \in LoadOrderings ) =>
            /\ last.res.kind = OkKind
            /\ last'.res.kind = OkKind
            /\ last'.val = last.val
      ]_vars

\* C5 amended: the same, for the offsets whose address (view address + offset)
\* is a multiple of align_of(T); at the others both calls return Misaligned.
C5_StoreThenLoadAligned ==
    [][ ( /\ last.op = "store" /\ last'.op = "load"
          /\ last'.on = last.on /\ last'.ty = last.ty /\ last'.off = last.off
          /\ InBounds(last)
          /\ last.ord \in StoreOrderings /\ last'.ord \in LoadOrderings ) =>
            IF Aligned(last)
            THEN /\ last.res.kind = OkKind
                 /\ last'.res.kind = OkKind
                 /\ last'.val = last.val
            ELSE /\ last.res.kind = "Misaligned"
                 /\ last'.res.kind = "Misaligned"
      ]_vars

C5_Witness ==
    /\ last.op = "load"
    /\ last.ty = "u16"
    /\ last.ord = "Acquire"
    /\ InBounds(last)
    /\ Aligned(last)
    /\ last.res.kind = OkKind
    /\ last.val = ValueOf("u16")

\* C6 as stated: a store or load with offset + size_of(T) > length returns an
\* out-of-bounds error, yields no value, and leaves every byte as it was.
C6_PastEndIsOutOfBounds ==
    [][ (last'.op \in {"store", "load"} /\ ~InBounds(last')) =>
            /\ last'.res.kind = "OutOfBounds"
            /\ (last'.op = "load" => last'.val = 0)
            /\ mem' = mem
      ]_vars

\* C6 amended: such a store or load returns an error, OutOfBounds{addr: offset
\* + size_of(T)}, or Overflow{base: offset, offset: size_of(T)} when offset +
\* size_of(T) exceeds usize::MAX; it yields no value and leaves every byte,
\* inside and outside the view, as it was.
C6_PastEndIsError ==
    [][ (last'.op \in {"store", "load"} /\ ~InBounds(last')) =>
            /\ last'.res = IF last'.off + size_of(last'.ty) > UsizeMax
                           THEN Err("Overflow", last'.off, size_of(last'.ty))
                           ELSE Err("OutOfBounds", last'.off + size_of(last'.ty), 0)
            /\ (last'.op = "load" => last'.val = 0)
            /\ mem' = mem
      ]_vars

C6_Witness ==
    /\ last.op = "store"
    /\ last.off = last.on.size
    /\ last.on.size > 0
    /\ last.res.kind = "OutOfBounds"
    /\ mem # ZeroMem
    /\ mem[BufBase + BufLen] = 0

\* the offset of call c's access, relative to root
RootOffset(c) == (c.on.addr - root.addr) + c.off

\* C10 as stated: for every in-bounds relative offset r, a value stored through
\* root.offset(o) at r changes only the bytes [o + r, o + r + size_of(T)) of the
\* backing array, and a load through root at o + r returns the value.
C10_SubSliceAliases ==
    [][ ( /\ last'.op = "store" /\ InBounds(last')
          /\ last'.ord \in StoreOrderings ) =>
            /\ last'.res.kind = OkKind
            /\ \A x \in MemAddrs :
                  (x - root.addr) \notin
                      RootOffset(last') .. (RootOffset(last') + size_of(last'.ty) - 1)
                  => mem'[x] = mem[x]
            /\ \A order \in LoadOrderings :
                  /\ load(mem', root, last'.ty, RootOffset(last'), order).res.kind = OkKind
                  /\ load(mem', root, last'.ty, RootOffset(last'), order).val = last'.val
      ]_vars

\* C10 amended: the same, for the relative offsets r at which the address of
\* the access is a multiple of align_of(T); at the others the store returns
\* Misaligned and changes nothing.
C10_SubSliceAliasesAligned ==
    [][ ( /\ last'.op = "store" /\ InBounds(last')
          /\ last'.ord \in StoreOrderings ) =>
            IF Aligned(last')
            THEN /\ last'.res.kind = OkKind
                 /\ \A x \in MemAddrs :
                       (x - root.addr) \notin
                           RootOffset(last') .. (RootOffset(last') + size_of(last'.ty) - 1)
                       => mem'[x] = mem[x]
                 /\ \A order \in LoadOrderings :
                       /\ load(mem', root, last'.ty, RootOffset(last'), order).res.kind
                              = OkKind
                       /\ load(mem', root, last'.ty, RootOffset(last'), order).val
                              = last'.val
            ELSE /\ last'.res.kind = "Misaligned"
                 /\ mem' = mem
      ]_vars

C10_Witness ==
    /\ last.op = "store"
    /\ last.res.kind = OkKind
    /\ last.on.addr > root.addr
    /\ last.off > 0
    /\ mem[last.on.addr + last.off] = last.val
    /\ load(mem, root, last.ty, RootOffset(last), "Acquire").val = last.val

(***************************************************************************)
(* Properties of FileVolatileBuf (SpecBuf)                                 *)
(***************************************************************************)
\* C7 as stated: bytes_init() <= bytes_total() in every state reached by new,
\* from_raw or borrow_mut followed by any set_init calls.
C7_InitWithinTotal == bytes_init(fbuf) <= bytes_total(fbuf)

\* C7 amended: bytes_init() <= bytes_total() after new, after borrow_mut, after
\* from_raw(addr, size, cap) with size <= cap and after set_init(pos) with
\* pos <= bytes_total(); neither precondition is checked by the code.
C7_InitWithinTotalIfCallerKeepsIt ==
    ( /\ (last.op = "from_raw" => last.size <= last.cap)
      /\ (last.op = "set_init" => last.pos <= last.cap) )
    => bytes_init(fbuf) <= bytes_total(fbuf)

C7_Witness ==
    /\ last.op = "set_init"
    /\ last.pos = last.cap
    /\ last.pos > last.size
    /\ bytes_init(fbuf) = bytes_total(fbuf)

\* C8: a buffer built by new or borrow_mut from a region of length N at address
\* A has bytes_total() = N, bytes_init() = 0 and stable_ptr() = A; set_init(k)
\* with k <= N makes bytes_init() = k and leaves bytes_total() and the pointer.
C8_BufGeometry ==
    [][ /\ (last'.op \in {"new", "borrow_mut"} =>
               /\ bytes_total(fbuf') = last'.cap
               /\ bytes_init(fbuf') = 0
               /\ stable_ptr(fbuf') = last'.addr
               /\ stable_mut_ptr(fbuf') = last'.addr)
        /\ ((last'.op = "set_init" /\ last'.pos <= bytes_total(fbuf)) =>
               /\ bytes_init(fbuf') = last'.pos
               /\ bytes_total(fbuf') = bytes_total(fbuf)
               /\ stable_ptr(fbuf') = stable_ptr(fbuf))
      ]_vars

C8_Witness ==
    /\ last.op = "set_init"
    /\ last.size = 0
    /\ last.pos > 0
    /\ last.pos < last.cap
    /\ bytes_init(fbuf) = last.pos
    /\ bytes_total(fbuf) = last.cap

====
